---- MODULE Spec2Model ----
(***************************************************************************)
(* The French LPIS (IGN "Registre Parcellaire Graphique") ingestion        *)
(* pipeline: three nuclio functions connected by Kafka topics.             *)
(*                                                                         *)
(*   00-http-trigger        the Resolver  (variables res_...)              *)
(*   01-archive-processor   the Processor (variables proc_...)             *)
(*   02-datastore-ingestion the Ingestor  (variables ing_...)              *)
(*                                                                         *)
(* Each function is a Python module with a handler, a background thread    *)
(* running Helpers.on_import, and the class attributes of FunctionState    *)
(* and FunctionConfig as its process-lifetime state.                       *)
(***************************************************************************)
EXTENDS Integers, Sequences, FiniteSets, TLC

VARIABLES
    \* ---- 00-http-trigger (Resolver)
    res_init_pc,        \* position of the thread running Helpers.on_import
    res_done_loading,   \* FunctionState.done_loading
    res_producer,       \* FunctionState.producer
    res_event,          \* the event being handled (NoEvent when idle)
    res_topic,          \* messages produced to TARGET_TOPIC, in order
    res_flushed,        \* how many of them a flush() has delivered
    res_last            \* what the last finished invocation received and returned

VARIABLES
    \* ---- 01-archive-processor (Processor)
    proc_slots,         \* the invocations the runtime dispatches, possibly concurrently
    proc_shapefiles,    \* which record lists the shapefile of an archive may hold
    proc_init_pc,       \* position of the thread running Helpers.on_import
    proc_done_loading,  \* FunctionState.done_loading
    proc_producer,      \* FunctionState.producer
    proc_fs,            \* the directories /tmp/nuclio-event-<id> that exist
    proc_buffer,        \* messages produced and not yet flushed
    proc_topic,         \* messages delivered to TARGET_TOPIC
    proc_pc,            \* position of each invocation in handler
    proc_inv            \* the locals of each invocation

VARIABLES
    \* ---- 02-datastore-ingestion (Ingestor)
    ing_init_pc,            \* position of the thread running Helpers.on_import
    ing_done_loading,       \* FunctionState.done_loading
    ing_mongodb_client,     \* FunctionState.mongodb_client
    ing_target_crs_epsg_code, \* FunctionConfig.target_crs_epsg_code
    ing_store,              \* the documents of the target collection
    ing_event,              \* the event being handled (NoEvent when idle)
    ing_received,           \* per feature id, the feature of the last successful invocation
    ing_last                \* what the invocation that just finished received and returned

VARIABLES
    \* ---- Helpers.reproject_coordinates called on its own
    rp_pc, rp_source, rp_target, rp_coords, rp_out

res_vars == <<res_init_pc, res_done_loading, res_producer, res_event, res_topic,
              res_flushed, res_last>>

proc_vars == <<proc_slots, proc_shapefiles, proc_init_pc, proc_done_loading, proc_producer, proc_fs,
               proc_buffer, proc_topic, proc_pc, proc_inv>>

ing_vars == <<ing_init_pc, ing_done_loading, ing_mongodb_client, ing_target_crs_epsg_code,
              ing_store, ing_event, ing_received, ing_last>>

rp_vars == <<rp_pc, rp_source, rp_target, rp_coords, rp_out>>

vars == <<res_vars, proc_vars, ing_vars, rp_vars>>

----------------------------------------------------------------------------
(* Bounds of the model *)

\* messages the model lets accumulate on a Kafka topic
MaxTopic == 1
\* anchors of class "fleche2" on a catalog page
MaxAnchors == 2
\* records of a shapefile
MaxRecords == 2
\* nodes (lists and coordinate pairs) of a coordinate structure
MaxNodes == 5

----------------------------------------------------------------------------
(* Python values.  JSON gives numbers and text; the code treats them        *)
(* differently (==, in, int(), str.format), so a value keeps its type.     *)

PyInt(n) == [t |-> "int", n |-> n, s |-> ""]
PyStr(s) == [t |-> "str", n |-> 0, s |-> s]

\* the integers whose decimal text the model can parse
Numerals == (0 .. 30) \cup {99, 2016, 2017, 4326, 2154}
NumeralText == [k \in Numerals |-> ToString(k)]

ZeroNumeralText == [k \in Numerals |-> "0" \o ToString(k)]

\* int(x): the value of an int, the parse of a decimal text, leading zero
\* accepted; raises ValueError (ok = FALSE) on any other text
ParseNumeral ==
    [s \in {NumeralText[k] : k \in Numerals} \cup {ZeroNumeralText[k] : k \in Numerals} |->
        CHOOSE k \in Numerals : s \in {NumeralText[k], ZeroNumeralText[k]}]
int(x) ==
    IF x.t = "int" THEN [ok |-> TRUE, n |-> x.n]
    ELSE IF x.s \in DOMAIN ParseNumeral THEN [ok |-> TRUE, n |-> ParseNumeral[x.s]]
    ELSE [ok |-> FALSE, n |-> 0]

\* "{0}".format(x)
format(x) == IF x.t = "int" THEN ToString(x.n) ELSE x.s

\* requests.codes
codes_ok == 200
codes_bad == 400
codes_internal_server_error == 500
codes_unavailable == 503

\* how a handler invocation ends: a response with a status code, or an
\* exception that leaves the handler
Returned(status) == [how |-> "return", status |-> status]
Raised(exc)      == [how |-> "raise", status |-> 0, exc |-> exc]

\* result of a helper that may raise
Ok(v)            == [raised |-> "none", status |-> 0, value |-> v]
NuclioResponseError(status) == [raised |-> "NuclioResponseError", status |-> status]
Exception(name)  == [raised |-> name, status |-> 0]

----------------------------------------------------------------------------
(* 00-http-trigger: the Resolver *)

None == "None"
NoEvent == [absent |-> TRUE]

\* FunctionConfig.source_id, parcel_id_field, normalized_parcel_properties
source_id == "lpis:fr"
parcel_id_field == "ID_PARCEL"
normalized_parcel_properties == [area |-> [sourceProp |-> "SURF_PARC", coefSI |-> "*10000"]]

\* An Archive Request body: a dict with some of the keys year and region.
ResYearValues   == {PyInt(2016), PyStr("2016"), PyStr("abc"), PyInt(0)}
ResRegionValues == {PyInt(1), PyInt(24), PyStr("1"), PyStr("x"), PyInt(0)}
ResBodies ==
    {[k \in {} |-> PyInt(0)]}
    \cup {[k \in {"year"} |-> y] : y \in ResYearValues}
    \cup {[k \in {"region"} |-> r] : r \in ResRegionValues}
    \cup {[k \in {"year", "region"} |-> IF k = "year" THEN y ELSE r] :
             y \in ResYearValues, r \in ResRegionValues}

\* The href of an anchor of the catalog page.  The archives are published as
\*   RPG_2-0__SHP_<projection>_<region>-<y1>_<y2>-01-01<tail>
\* and an anchor may carry no href at all.
NoHref == [has |-> FALSE, region |-> "", y1 |-> "", y2 |-> "", tail |-> ""]
Href(region, y1, y2, tail) ==
    [has |-> TRUE, region |-> region, y1 |-> y1, y2 |-> y2, tail |-> tail]
Hrefs ==
    { NoHref,
      Href("R24", "2016", "2016", ".7z"),
      Href("R24", "2016", "2016", ".7z.001"),
      Href("R24", "2016", "2016", ".7z_001"),
      Href("R24", "2016", "2016", ".zip"),
      Href("D971", "2016", "2016", ".7z"),
      Href("R1", "2016", "2016", ".7z") }

RECURSIVE SeqsUpTo(_, _)
SeqsUpTo(S, n) ==
    IF n = 0 THEN {<<>>}
    ELSE LET shorter == SeqsUpTo(S, n - 1)
         IN  shorter \cup {Append(q, x) : q \in {r \in shorter : Len(r) = n - 1}, x \in S}

\* What requests.get(rpg_url) does: it raises, or it returns a response whose
\* content holds the anchors of class "fleche2" (an error page holds none).
FetchOutcomes ==
    {[raises |-> TRUE, status_code |-> 0, anchors |-> <<>>]}
    \cup {[raises |-> FALSE, status_code |-> codes_ok, anchors |-> a] :
             a \in SeqsUpTo(Hrefs, MaxAnchors)}
    \cup {[raises |-> FALSE, status_code |-> c, anchors |-> <<>>] : c \in {404, 503}}

\* Helpers.parse_body of the Resolver
res_parse_body(body) ==
    IF "year" \notin DOMAIN body THEN NuclioResponseError(codes_bad)
    ELSE IF ~int(body["year"]).ok THEN Exception("ValueError")
    ELSE IF int(body["year"]).n = 0 THEN NuclioResponseError(codes_bad)
    ELSE IF "region" \notin DOMAIN body THEN NuclioResponseError(codes_bad)
    ELSE IF ~int(body["region"]).ok THEN Exception("ValueError")
    ELSE IF int(body["region"]).n = 0 THEN NuclioResponseError(codes_bad)
    ELSE Ok([year |-> body["year"], region |-> body["region"]])

\* region in [1,2,3,4,6]: Python's == between an int and a str is False
InOverseasList(region) == region.t = "int" /\ region.n \in {1, 2, 3, 4, 6}

\* the region code of lines 35-38
RegionCode(region) ==
    IF InOverseasList(region) THEN "D97" \o format(region) ELSE "R" \o format(region)

\* re.search(archive_regex, href), archive_regex being
\*   "RPG_2-0__SHP_.*_{1}-{0}_{0}-01-01.7z(.001)?$".format(year, region)
\* in which each "." matches any character
RegexTails == {".7z", ".7z.001", ".7z_001"}
ArchiveRegexMatches(year, region, h) ==
    /\ h.region = region
    /\ h.y1 = format(year)
    /\ h.y2 = format(year)
    /\ h.tail \in RegexTails

\* a scraper that keeps the first matching link only
LinksFirstMatch(year, region, anchors) ==
    LET all == SelectSeq(anchors, LAMBDA h : h.has /\ ArchiveRegexMatches(year, region, h))
    IN  IF all = <<>> THEN <<>> ELSE <<all[1]>>

\* the links of lines 53-56
Links(year, region, anchors) ==
    SelectSeq(anchors, LAMBDA h : h.has /\ ArchiveRegexMatches(year, region, h))

\* archive_to_donwload.endswith('7z') or archive_to_donwload.endswith('7z.001')
EndsWith7z(h) == h.tail \in {".7z", ".7z.001"}

\* the download command of lines 82-89
DownloadCommand(url, region, year) ==
    [format |-> "7z", url |-> url, sourceID |-> source_id \o ":" \o region,
     parcelIdField |-> parcel_id_field,
     normalizedProperties |-> normalized_parcel_properties,
     version |-> year]

\* the message is handed to the producer and never flushed
SubmitWithoutFlush(download_cmd) == [produced |-> <<download_cmd>>, flushed |-> FALSE]

\* lines 92-95: p.produce(target_topic, value) then p.flush(), which returns
\* once the message is delivered
Submit(download_cmd) == [produced |-> <<download_cmd>>, flushed |-> TRUE]

\* What one run of the handler does, from the event body, the state of the
\* module and the outcome of the GET it may send:
\*   outcome   how the invocation ends
\*   fetched   whether requests.get was called
\*   region    the region code it computed ("" before line 35)
\*   nlinks    the number of links found (-1 before line 53)
\*   produced  the messages handed to p.produce
\*   flushed   whether p.flush() returned
ResResult(outcome, fetched, region, nlinks, produced, flushed) ==
    [outcome |-> outcome, fetched |-> fetched, region |-> region, nlinks |-> nlinks,
     produced |-> produced, flushed |-> flushed]

\* lines 99-106: a NuclioResponseError is answered with its status, any other
\* exception with the default status of NuclioResponseError
ExceptClauses(r) ==
    IF r.raised = "NuclioResponseError" THEN Returned(r.status)
    ELSE Returned(codes_internal_server_error)

res_handler(body, done_loading, producer, fetch) ==
    IF ~done_loading
    THEN ResResult(ExceptClauses(NuclioResponseError(codes_unavailable)),
                   FALSE, "", -1, <<>>, FALSE)
    ELSE
    LET pb == res_parse_body(body) IN
    IF pb.raised # "none"
    THEN ResResult(ExceptClauses(pb), FALSE, "", -1, <<>>, FALSE)
    ELSE
    LET year   == pb.value.year
        region == RegionCode(pb.value.region)
    IN
    IF fetch.raises
    THEN ResResult(ExceptClauses(Exception("ConnectionError")), TRUE, region, -1, <<>>, FALSE)
    ELSE
    LET links == Links(year, region, fetch.anchors) IN
    IF Len(links) # 1
    THEN ResResult(ExceptClauses(NuclioResponseError(codes_bad)),
                   TRUE, region, Len(links), <<>>, FALSE)
    ELSE IF ~EndsWith7z(links[1])
    THEN ResResult(ExceptClauses(NuclioResponseError(codes_bad)),
                   TRUE, region, Len(links), <<>>, FALSE)
    ELSE IF producer = None
    THEN ResResult(ExceptClauses(Exception("AttributeError")),
                   TRUE, region, Len(links), <<>>, FALSE)
    ELSE LET sent == Submit(DownloadCommand(links[1], region, year)) IN
         ResResult(Returned(codes_ok), TRUE, region, Len(links),
                   sent.produced, sent.flushed)

\* Helpers.on_import, run by the thread started at import (lines 184-189, 205)
ResLoadConfigs ==
    /\ res_init_pc = "load_configs"
    /\ res_init_pc' = "load_producer"
    /\ UNCHANGED <<res_done_loading, res_producer, res_event, res_topic, res_flushed,
                   res_last>>

ResLoadProducer ==
    /\ res_init_pc = "load_producer"
    /\ res_producer' = "Producer"
    /\ res_init_pc' = "set_done_loading"
    /\ UNCHANGED <<res_done_loading, res_event, res_topic, res_flushed, res_last>>

ResDoneLoading ==
    /\ res_init_pc = "set_done_loading"
    /\ res_done_loading' = TRUE
    /\ res_init_pc' = "finished"
    /\ UNCHANGED <<res_producer, res_event, res_topic, res_flushed, res_last>>

\* nuclio hands an event to the function
ResReceive ==
    /\ res_event = NoEvent
    /\ Len(res_topic) < MaxTopic
    /\ \E body \in ResBodies : res_event' = [absent |-> FALSE, body |-> body]
    /\ res_last' = [absent |-> TRUE]
    /\ UNCHANGED <<res_init_pc, res_done_loading, res_producer, res_topic, res_flushed>>

\* handler(context, event), lines 11-112
ResHandler ==
    /\ res_event # NoEvent
    /\ \E fetch \in FetchOutcomes :
          LET r == res_handler(res_event.body, res_done_loading, res_producer, fetch) IN
          /\ res_topic' = res_topic \o r.produced
          /\ res_flushed' = IF r.flushed THEN Len(res_topic') ELSE res_flushed
          /\ res_last' = [absent |-> FALSE, body |-> res_event.body,
                          ready |-> res_done_loading, fetch |-> fetch,
                          topic_before |-> res_topic, result |-> r]
    /\ res_event' = NoEvent
    /\ UNCHANGED <<res_init_pc, res_done_loading, res_producer>>

ResInit ==
    /\ res_init_pc = "load_configs"
    /\ res_done_loading = FALSE
    /\ res_producer = None
    /\ res_event = NoEvent
    /\ res_topic = <<>>
    /\ res_flushed = 0
    /\ res_last = [absent |-> TRUE]

ResNext ==
    \/ ResLoadConfigs /\ UNCHANGED <<proc_vars, ing_vars, rp_vars>>
    \/ ResLoadProducer /\ UNCHANGED <<proc_vars, ing_vars, rp_vars>>
    \/ ResDoneLoading /\ UNCHANGED <<proc_vars, ing_vars, rp_vars>>
    \/ ResReceive /\ UNCHANGED <<proc_vars, ing_vars, rp_vars>>
    \/ ResHandler /\ UNCHANGED <<proc_vars, ing_vars, rp_vars>>

----------------------------------------------------------------------------
(* 01-archive-processor: the Processor *)

\* FunctionConfig.accepted_source_id
accepted_source_id == "lpis:fr"

\* FunctionConfig.region_code_epsg_crs
region_code_epsg_crs ==
    [n \in {1, 2, 3, 4, 6, 11, 24, 27, 28, 32, 44, 52, 53, 75, 76, 84, 93, 94} |->
        CASE n \in {1, 2} -> 32620
          [] n = 3 -> 2972
          [] n = 4 -> 2975
          [] n = 6 -> 4471
          [] OTHER -> 2154]

\* the cadence of the flush in the record loop (count % 1000 == 0)
FlushCadence == 1000

\* A sourceID "<dataset>:<letters><digits>", kept in its parts: the code looks
\* at its head with startswith and at its tail with rsplit(':',1) and two
\* regular expressions.
SourceID(dataset, letters, digits) ==
    [t |-> "str", dataset |-> dataset, letters |-> letters, digits |-> digits]
SourceIDText(sid) == sid.dataset \o ":" \o sid.letters \o sid.digits

\* a prefix test that accepts every sourceID
startswithAnything(sid, prefix) == TRUE

\* sourceID.startswith(prefix), for the datasets of the model (none is a
\* proper extension of the accepted one)
startswith(sid, prefix) == sid.dataset = prefix

\* str.lower() on the format names of the model
lower(s) == IF s = "7Z" THEN "7z" ELSE s

PyDict(d) == [t |-> "dict", d |-> d]

\* A Download Command as the Resolver forges it, for region text letters+digits
ProcValidBody(letters, digits) ==
    [k \in {"format", "url", "sourceID", "parcelIdField", "normalizedProperties", "version"} |->
        CASE k = "format" -> PyStr("7z")
          [] k = "url" -> PyStr("http://ign/RPG.7z")
          [] k = "sourceID" -> SourceID("lpis:fr", letters, digits)
          [] k = "parcelIdField" -> PyStr(parcel_id_field)
          [] k = "normalizedProperties" -> PyDict(normalized_parcel_properties)
          [] k = "version" -> PyInt(2016)]

Without(body, key) == [k \in DOMAIN body \ {key} |-> body[k]]
With(body, key, v) == [k \in DOMAIN body \cup {key} |-> IF k = key THEN v ELSE body[k]]

ProcBodies ==
    LET good == ProcValidBody("R", "24") IN
    {good, ProcValidBody("D97", "1"), ProcValidBody("R", "5"), ProcValidBody("X", "")}
    \cup {Without(good, k) : k \in DOMAIN good}
    \cup {With(good, "format", PyStr("zip")),
          With(ProcValidBody("R", "99"), "format", PyStr("7Z"))}
    \cup {With(good, "sourceID", SourceID("lpis:be", "R", "24"))}
    \cup {With(good, "normalizedProperties", PyStr("area"))}

\* event.id
EventIds == {"e1", "e2"}

\* The tree an archive extracts to: its directories, each with the names of
\* its files and whether it lies under search_path (tmp_dir/<archive name
\* without extension>).
ShpName == "PARCELLES_GRAPHIQUES.shp"
Dir(under, files) == [under_search_path |-> under, files |-> files]
Trees ==
    { <<Dir(TRUE, {"LISEZ-MOI.txt"})>>,
      <<Dir(TRUE, {"LISEZ-MOI.txt"}), Dir(TRUE, {ShpName, "PARCELLES_GRAPHIQUES.dbf"})>>,
      <<Dir(TRUE, {ShpName}), Dir(TRUE, {ShpName})>>,
      <<Dir(FALSE, {ShpName})>> }

\* The records of a shapefile: attribute name -> value
ShpRecord(id, surf) == [k \in {"ID_PARCEL", "SURF_PARC"} |-> IF k = "ID_PARCEL" THEN id ELSE surf]
ShpRecords ==
    { ShpRecord(PyInt(1), PyInt(2)),
      ShpRecord(PyInt(2), PyInt(3)),
      ShpRecord(PyStr("01"), PyInt(3)),
      [k \in {"SURF_PARC"} |-> PyInt(5)] }
Shapefiles == SeqsUpTo(ShpRecords, MaxRecords)

\* the shapefiles whose keys are all integers, for the runs with two invocations
IntKeyShapefiles ==
    SeqsUpTo({r \in ShpRecords : "ID_PARCEL" \in DOMAIN r => r["ID_PARCEL"].t = "int"},
             MaxRecords)

\* a shapefile long enough for the loop to pass the flush of lines 145-146 twice
LongRecords == FlushCadence + 2
LongShapefile == [k \in 1 .. LongRecords |-> ShpRecord(PyInt(k), PyInt(2))]

\* the sets of shapefiles a run may draw from, by name
ShapefileSets ==
    [Shapefiles |-> Shapefiles,
     IntKeyShapefiles |-> IntKeyShapefiles,
     WithLongShapefile |-> Shapefiles \cup {LongShapefile}]

\* Helpers.parse_body of the Processor
proc_parse_body(body) ==
    IF ~("format" \in DOMAIN body /\ lower(body["format"].s) = "7z")
    THEN NuclioResponseError(codes_bad)
    ELSE IF "url" \notin DOMAIN body THEN NuclioResponseError(codes_bad)
    ELSE IF "sourceID" \notin DOMAIN body THEN NuclioResponseError(codes_bad)
    ELSE IF ~startswith(body["sourceID"], accepted_source_id)
    THEN NuclioResponseError(codes_bad)
    ELSE IF "parcelIdField" \notin DOMAIN body THEN NuclioResponseError(codes_bad)
    ELSE IF "normalizedProperties" \notin DOMAIN body THEN NuclioResponseError(codes_bad)
    ELSE IF body["normalizedProperties"].t # "dict" THEN NuclioResponseError(codes_bad)
    ELSE IF "version" \notin DOMAIN body THEN NuclioResponseError(codes_bad)
    ELSE Ok([archive_format |-> body["format"],
             archive_url |-> body["url"],
             source_id |-> body["sourceID"],
             parcel_id_field |-> body["parcelIdField"].s,
             normalized_parcel_properties |-> body["normalizedProperties"].d,
             version |-> PyStr(format(body["version"]))])

\* lines 89-99: the EPSG code of the region the sourceID ends with
\*   re.search('R([0-9]+)', region), else re.search('D97([0-9])', region),
\*   then FunctionConfig.region_code_epsg_crs[int(region_code)]
RegionCrs(sid) ==
    IF (sid.letters = "R" \/ sid.letters = "D97") /\ sid.digits # ""
    THEN LET n == int(PyStr(sid.digits)).n IN
         IF n \in DOMAIN region_code_epsg_crs
         THEN Ok(region_code_epsg_crs[n])
         ELSE Exception("KeyError")
    ELSE NuclioResponseError(codes_bad)

\* a walk of the whole working directory
WalkWholeTree(tree) == SelectSeq(tree, LAMBDA d : ShpName \in d.files)

\* lines 68-75: the shapefiles os.walk(search_path) finds
WalkShapefiles(tree) ==
    SelectSeq(tree, LAMBDA d : d.under_search_path /\ ShpName \in d.files)

\* a feature whose id leaves the natural key out
ParcelFeatureWithoutKey(b, crs_code, rec) ==
    IF b.parcel_id_field \notin DOMAIN rec THEN Exception("KeyError")
    ELSE Ok([_id |-> SourceIDText(b.source_id), type |-> "Feature",
             properties |-> [lpis |-> rec, version |-> b.version]])

\* lines 116-140: the GeoJSON feature of one shape record
ParcelFeature(b, crs_code, rec) ==
    IF b.parcel_id_field \notin DOMAIN rec THEN Exception("KeyError")
    ELSE
    LET sp == b.normalized_parcel_properties.area.sourceProp IN
    IF sp \notin DOMAIN rec THEN Exception("TypeError")
    ELSE Ok([_id |-> SourceIDText(b.source_id) \o ":" \o ToString(int(rec[b.parcel_id_field]).n),
             type |-> "Feature",
             properties |-> [lpis |-> rec,
                             crs |-> [type |-> "EPSG", properties |-> [code |-> PyInt(crs_code)]],
                             version |-> b.version,
                             area |-> PyInt(rec[sp].n * 10000)]])

\* a cleanup that leaves the directory in place
rmtreeSkipped(fs, path) == fs

\* shutil.rmtree(path)
rmtree(fs, path) == fs \ {path}

\* os.makedirs(path)
makedirs(fs, path) == fs \cup {path}

IdleInv ==
    [event_id |-> "", body |-> <<>>, ready |-> FALSE, b |-> <<>>, tmp_dir |-> None,
     tree |-> <<>>, shpfs |-> 0, crs_code |-> 0, records |-> <<>>, count |-> 0,
     emitted |-> <<>>, stages |-> <<>>, pending |-> Returned(0), outcome |-> Returned(0)]

\* the error is recorded and the invocation goes back to the download
ProcFailRetries(i, r, stage) ==
    /\ proc_inv' = [proc_inv EXCEPT ![i].pending = ExceptClauses(r),
                                    ![i].stages = Append(@, stage)]
    /\ proc_pc' = [proc_pc EXCEPT ![i] = "download"]

\* the except clauses of lines 154-161 choose the response; the finally
\* clause runs before it is returned
ProcFail(i, r, stage) ==
    /\ proc_inv' = [proc_inv EXCEPT ![i].pending = ExceptClauses(r),
                                    ![i].stages = Append(@, stage)]
    /\ proc_pc' = [proc_pc EXCEPT ![i] = "finally"]

\* Helpers.on_import (lines 330-335, 351)
ProcLoadConfigs ==
    /\ proc_init_pc = "load_configs"
    /\ proc_init_pc' = "load_producer"
    /\ UNCHANGED <<proc_slots, proc_shapefiles, proc_done_loading, proc_producer, proc_fs, proc_buffer,
                   proc_topic, proc_pc, proc_inv>>

ProcLoadProducer ==
    /\ proc_init_pc = "load_producer"
    /\ proc_producer' = "Producer"
    /\ proc_init_pc' = "set_done_loading"
    /\ UNCHANGED <<proc_slots, proc_shapefiles, proc_done_loading, proc_fs, proc_buffer,
                   proc_topic, proc_pc, proc_inv>>

\* an on_import that sets the flag before load_producer has run
ProcDoneLoadingBeforeProducer ==
    /\ proc_init_pc = "load_producer"
    /\ proc_done_loading' = TRUE
    /\ UNCHANGED <<proc_slots, proc_shapefiles, proc_init_pc, proc_producer, proc_fs,
                   proc_buffer, proc_topic, proc_pc, proc_inv>>

ProcDoneLoading ==
    /\ proc_init_pc = "set_done_loading"
    /\ proc_done_loading' = TRUE
    /\ proc_init_pc' = "finished"
    /\ UNCHANGED <<proc_slots, proc_shapefiles, proc_producer, proc_fs, proc_buffer,
                   proc_topic, proc_pc, proc_inv>>

\* nuclio hands an event to the function
ProcReceive(i) ==
    /\ proc_pc[i] = "idle"
    /\ \E id \in EventIds, body \in ProcBodies :
          proc_inv' = [proc_inv EXCEPT ![i] = [IdleInv EXCEPT !.event_id = id, !.body = body]]
    /\ proc_pc' = [proc_pc EXCEPT ![i] = "validate"]
    /\ UNCHANGED <<proc_slots, proc_shapefiles, proc_init_pc, proc_done_loading,
                   proc_producer, proc_fs,
                   proc_buffer, proc_topic>>

\* lines 28-42: the readiness check and parse_body
ProcValidate(i) ==
    /\ proc_pc[i] = "validate"
    /\ IF ~proc_done_loading
       THEN ProcFail(i, NuclioResponseError(codes_unavailable), "ready")
       ELSE LET pb == proc_parse_body(proc_inv[i].body) IN
            IF pb.raised # "none"
            THEN /\ proc_inv' = [proc_inv EXCEPT ![i].pending = ExceptClauses(pb),
                                                 ![i].ready = TRUE,
                                                 ![i].stages = Append(@, "validate")]
                 /\ proc_pc' = [proc_pc EXCEPT ![i] = "finally"]
            ELSE /\ proc_inv' = [proc_inv EXCEPT ![i].b = pb.value,
                                                 ![i].ready = TRUE,
                                                 ![i].stages = Append(@, "validate")]
                 /\ proc_pc' = [proc_pc EXCEPT ![i] = "mkdir"]
    /\ UNCHANGED <<proc_slots, proc_shapefiles, proc_init_pc, proc_done_loading,
                   proc_producer, proc_fs,
                   proc_buffer, proc_topic>>

\* a create_temporary_dir that takes over a directory that exists
ProcMkdirExistOk(i) ==
    /\ proc_pc[i] = "mkdir"
    /\ proc_fs' = makedirs(proc_fs, proc_inv[i].event_id)
    /\ proc_inv' = [proc_inv EXCEPT ![i].tmp_dir = proc_inv[i].event_id,
                                    ![i].stages = Append(@, "mkdir")]
    /\ proc_pc' = [proc_pc EXCEPT ![i] = "download"]
    /\ UNCHANGED <<proc_slots, proc_shapefiles, proc_init_pc, proc_done_loading,
                   proc_producer, proc_buffer, proc_topic>>

\* line 45 and lines 290-299: Helpers.create_temporary_dir; os.makedirs raises
\* FileExistsError when the directory exists
ProcMkdir(i) ==
    /\ proc_pc[i] = "mkdir"
    /\ LET temp_dir == proc_inv[i].event_id IN
       IF temp_dir \in proc_fs
       THEN /\ ProcFail(i, Exception("FileExistsError"), "mkdir")
            /\ UNCHANGED proc_fs
       ELSE /\ proc_fs' = makedirs(proc_fs, temp_dir)
            /\ proc_inv' = [proc_inv EXCEPT ![i].tmp_dir = temp_dir,
                                            ![i].stages = Append(@, "mkdir")]
            /\ proc_pc' = [proc_pc EXCEPT ![i] = "download"]
    /\ UNCHANGED <<proc_slots, proc_shapefiles, proc_init_pc, proc_done_loading,
                   proc_producer,
                   proc_buffer, proc_topic>>

\* lines 47-57 and 301-328: Helpers.download_file; any failure of the
\* transfer is raised as a 503
ProcDownload(i) ==
    /\ proc_pc[i] = "download"
    /\ \E ok \in BOOLEAN :
          IF ok
          THEN /\ proc_inv' = [proc_inv EXCEPT ![i].stages = Append(@, "download")]
               /\ proc_pc' = [proc_pc EXCEPT ![i] = "extract"]
          ELSE ProcFail(i, NuclioResponseError(codes_unavailable), "download")
    /\ UNCHANGED <<proc_slots, proc_shapefiles, proc_init_pc, proc_done_loading,
                   proc_producer, proc_fs,
                   proc_buffer, proc_topic>>

\* lines 59-62: Archive(archive_target_path).extractall(tmp_dir)
ProcExtract(i) ==
    /\ proc_pc[i] = "extract"
    /\ \/ ProcFail(i, Exception("PatoolError"), "extract")
       \/ \E tree \in Trees :
             /\ proc_inv' = [proc_inv EXCEPT ![i].tree = tree,
                                             ![i].stages = Append(@, "extract")]
             /\ proc_pc' = [proc_pc EXCEPT ![i] = "locate"]
    /\ UNCHANGED <<proc_slots, proc_shapefiles, proc_init_pc, proc_done_loading,
                   proc_producer, proc_fs,
                   proc_buffer, proc_topic>>

\* lines 64-86: exactly one shapefile is expected under search_path
ProcLocate(i) ==
    /\ proc_pc[i] = "locate"
    /\ LET shpfs == WalkShapefiles(proc_inv[i].tree) IN
       IF Len(shpfs) # 1
       THEN /\ proc_inv' = [proc_inv EXCEPT ![i].pending = Returned(codes_bad),
                                            ![i].shpfs = Len(shpfs),
                                            ![i].stages = Append(@, "locate")]
            /\ proc_pc' = [proc_pc EXCEPT ![i] = "finally"]
       ELSE /\ proc_inv' = [proc_inv EXCEPT ![i].shpfs = Len(shpfs),
                                            ![i].stages = Append(@, "locate")]
            /\ proc_pc' = [proc_pc EXCEPT ![i] = "crs"]
    /\ UNCHANGED <<proc_slots, proc_shapefiles, proc_init_pc, proc_done_loading,
                   proc_producer, proc_fs,
                   proc_buffer, proc_topic>>

\* lines 88-100
ProcCrs(i) ==
    /\ proc_pc[i] = "crs"
    /\ LET c == RegionCrs(proc_inv[i].b.source_id) IN
       IF c.raised # "none"
       THEN ProcFail(i, c, "crs")
       ELSE /\ proc_inv' = [proc_inv EXCEPT ![i].crs_code = c.value,
                                            ![i].stages = Append(@, "crs")]
            /\ proc_pc' = [proc_pc EXCEPT ![i] = "open"]
    /\ UNCHANGED <<proc_slots, proc_shapefiles, proc_init_pc, proc_done_loading,
                   proc_producer, proc_fs,
                   proc_buffer, proc_topic>>

\* lines 102-114: shapefile.Reader(f) and the start of the record loop
ProcOpen(i) ==
    /\ proc_pc[i] = "open"
    /\ \E records \in ShapefileSets[proc_shapefiles] :
          proc_inv' = [proc_inv EXCEPT ![i].records = records,
                                       ![i].stages = Append(@, "stream")]
    /\ proc_pc' = [proc_pc EXCEPT ![i] = "stream"]
    /\ UNCHANGED <<proc_slots, proc_shapefiles, proc_init_pc, proc_done_loading,
                   proc_producer, proc_fs,
                   proc_buffer, proc_topic>>

\* lines 115-148: one turn of the record loop
ProcRecord(i) ==
    /\ proc_pc[i] = "stream"
    /\ proc_inv[i].count < Len(proc_inv[i].records)
    /\ LET inv == proc_inv[i]
           f == ParcelFeature(inv.b, inv.crs_code, inv.records[inv.count + 1])
       IN
       IF f.raised # "none"
       THEN /\ proc_inv' = [proc_inv EXCEPT ![i].pending = ExceptClauses(f)]
            /\ proc_pc' = [proc_pc EXCEPT ![i] = "finally"]
            /\ UNCHANGED <<proc_buffer, proc_topic>>
       ELSE /\ IF inv.count % FlushCadence = 0
               THEN /\ proc_topic' = proc_topic \o Append(proc_buffer, f.value)
                    /\ proc_buffer' = <<>>
               ELSE /\ proc_buffer' = Append(proc_buffer, f.value)
                    /\ UNCHANGED proc_topic
            /\ proc_inv' = [proc_inv EXCEPT ![i].count = @ + 1,
                                            ![i].emitted = Append(@, f.value)]
            /\ UNCHANGED proc_pc
    /\ UNCHANGED <<proc_slots, proc_shapefiles, proc_init_pc, proc_done_loading,
                   proc_producer, proc_fs>>

\* the loop ends and the summary is prepared without the last flush
ProcFlushSkipped(i) ==
    /\ proc_pc[i] = "stream"
    /\ proc_inv[i].count = Len(proc_inv[i].records)
    /\ proc_inv' = [proc_inv EXCEPT ![i].pending = Returned(codes_ok)]
    /\ proc_pc' = [proc_pc EXCEPT ![i] = "finally"]
    /\ UNCHANGED <<proc_slots, proc_shapefiles, proc_init_pc, proc_done_loading,
                   proc_producer, proc_fs, proc_buffer, proc_topic>>

\* lines 150-152: the last flush and the completion log
ProcFlush(i) ==
    /\ proc_pc[i] = "stream"
    /\ proc_inv[i].count = Len(proc_inv[i].records)
    /\ proc_topic' = proc_topic \o proc_buffer
    /\ proc_buffer' = <<>>
    /\ proc_inv' = [proc_inv EXCEPT ![i].pending = Returned(codes_ok)]
    /\ proc_pc' = [proc_pc EXCEPT ![i] = "finally"]
    /\ UNCHANGED <<proc_slots, proc_shapefiles, proc_init_pc, proc_done_loading,
                   proc_producer, proc_fs>>

\* lines 163-166: shutil.rmtree(tmp_dir), then the response chosen before; a
\* tmp_dir that was never assigned makes the finally clause itself raise
ProcFinally(i) ==
    /\ proc_pc[i] = "finally"
    /\ IF proc_inv[i].tmp_dir = None
       THEN /\ proc_inv' = [proc_inv EXCEPT ![i].outcome = Raised("UnboundLocalError"),
                                            ![i].stages = Append(@, "cleanup")]
            /\ UNCHANGED proc_fs
       ELSE /\ proc_fs' = rmtree(proc_fs, proc_inv[i].tmp_dir)
            /\ proc_inv' = [proc_inv EXCEPT ![i].outcome = proc_inv[i].pending,
                                            ![i].stages = Append(@, "cleanup")]
    /\ proc_pc' = [proc_pc EXCEPT ![i] = "done"]
    /\ UNCHANGED <<proc_slots, proc_shapefiles, proc_init_pc, proc_done_loading,
                   proc_producer,
                   proc_buffer, proc_topic>>

ProcInitWith(slots, shapefiles) ==
    /\ proc_slots = slots
    /\ proc_shapefiles = shapefiles
    /\ proc_init_pc = "load_configs"
    /\ proc_done_loading = FALSE
    /\ proc_producer = None
    /\ proc_fs = {}
    /\ proc_buffer = <<>>
    /\ proc_topic = <<>>
    /\ proc_pc = [i \in slots |-> "idle"]
    /\ proc_inv = [i \in slots |-> IdleInv]

ProcInit(slots) == ProcInitWith(slots, "Shapefiles")

ProcNext ==
    \/ ProcLoadConfigs /\ UNCHANGED <<res_vars, ing_vars, rp_vars>>
    \/ ProcLoadProducer /\ UNCHANGED <<res_vars, ing_vars, rp_vars>>
    \/ ProcDoneLoading /\ UNCHANGED <<res_vars, ing_vars, rp_vars>>
    \/ \E i \in proc_slots :
          \/ ProcReceive(i) /\ UNCHANGED <<res_vars, ing_vars, rp_vars>>
          \/ ProcValidate(i) /\ UNCHANGED <<res_vars, ing_vars, rp_vars>>
          \/ ProcMkdir(i) /\ UNCHANGED <<res_vars, ing_vars, rp_vars>>
          \/ ProcDownload(i) /\ UNCHANGED <<res_vars, ing_vars, rp_vars>>
          \/ ProcExtract(i) /\ UNCHANGED <<res_vars, ing_vars, rp_vars>>
          \/ ProcLocate(i) /\ UNCHANGED <<res_vars, ing_vars, rp_vars>>
          \/ ProcCrs(i) /\ UNCHANGED <<res_vars, ing_vars, rp_vars>>
          \/ ProcOpen(i) /\ UNCHANGED <<res_vars, ing_vars, rp_vars>>
          \/ ProcRecord(i) /\ UNCHANGED <<res_vars, ing_vars, rp_vars>>
          \/ ProcFlush(i) /\ UNCHANGED <<res_vars, ing_vars, rp_vars>>
          \/ ProcFinally(i) /\ UNCHANGED <<res_vars, ing_vars, rp_vars>>
----------------------------------------------------------------------------
(* 02-datastore-ingestion: the Ingestor *)

\* A node of geometry.coordinates: a number or a list of nodes
Num(v) == [list |-> FALSE, v |-> v, items |-> <<>>]
List(items) == [list |-> TRUE, v |-> 0, items |-> items]
Pair(x, y) == List(<<Num(x), Num(y)>>)

\* The coordinate systems pyproj resolves in the model, each with the offset
\* that stands for its projection
KnownEpsg == {"4326", "2154", "32620"}
ProjOffset(name) == CASE name = "4326" -> 0 [] name = "2154" -> 7 [] name = "32620" -> 11

\* Proj(init='EPSG:{0}'.format(code)): raises on a code pyproj does not know
Proj(code) ==
    IF format(code) \in KnownEpsg THEN Ok(format(code)) ELSE Exception("RuntimeError")

\* pyproj.transform(source_proj, target_proj, x, y): the identity between
\* equal projections, a bijection of the plane otherwise
transform(source_proj, target_proj, x, y) ==
    LET d == ProjOffset(target_proj) - ProjOffset(source_proj)
    IN  <<Num(x.v + d), Num(y.v - d)>>

\* a loop whose "return new_coords" sits inside the for: it returns after the
\* first child
RECURSIVE reprojectFirstChildOnly(_, _, _)
reprojectFirstChildOnly(source_proj, target_proj, coords) ==
    IF \E k \in 1 .. Len(coords.items) : ~coords.items[k].list
    THEN List(transform(source_proj, target_proj, coords.items[1], coords.items[2]))
    ELSE IF coords.items = <<>> THEN List(<<>>)
    ELSE List(<<reprojectFirstChildOnly(source_proj, target_proj, coords.items[1])>>)

\* Helpers.reproject_coordinates: the loop returns the transform of coords
\* at the first child that is not a list, and the list of the reprojected
\* children when every child is a list
RECURSIVE reproject_coordinates(_, _, _)
reproject_coordinates(source_proj, target_proj, coords) ==
    IF \E k \in 1 .. Len(coords.items) : ~coords.items[k].list
    THEN List(transform(source_proj, target_proj, coords.items[1], coords.items[2]))
    ELSE List([k \in 1 .. Len(coords.items) |->
                  reproject_coordinates(source_proj, target_proj, coords.items[k])])

\* whether that call raises: transform(*coords) takes two numbers
RECURSIVE ReprojectRaises(_)
ReprojectRaises(coords) ==
    IF \E k \in 1 .. Len(coords.items) : ~coords.items[k].list
    THEN \/ Len(coords.items) # 2
         \/ \E k \in 1 .. Len(coords.items) : coords.items[k].list
    ELSE \E k \in 1 .. Len(coords.items) : ReprojectRaises(coords.items[k])

\* a write that inserts without looking for the document to replace
insertAlways(store, id, body) == Append(store, body)

\* a write whose filter matches every document: the first one is replaced
replaceFirstDocument(store, id, body) ==
    IF store = <<>> THEN <<body>> ELSE [store EXCEPT ![1] = body]

\* collection.replace_one({'_id': id}, body, upsert=True) on the documents in
\* their natural order: the first document matching the filter is replaced,
\* and the replacement is inserted when none matches
replace_one(store, id, body) ==
    IF \E k \in 1 .. Len(store) : store[k]._id = id
    THEN LET k == CHOOSE j \in 1 .. Len(store) :
                     /\ store[j]._id = id
                     /\ \A h \in 1 .. (j - 1) : store[h]._id # id
         IN  [store EXCEPT ![k] = body]
    ELSE Append(store, body)

\* Parcel Features as the Processor emits them, and some it would not emit
Crs(type, code) == [type |-> type, properties |-> [code |-> code]]
IngProperties(hasCrs, crs, version) ==
    [k \in (IF hasCrs THEN {"crs"} ELSE {}) \cup {"version"} |->
        IF k = "crs" THEN crs ELSE PyStr(version)]
IngFeature(id, props, coords) ==
    [_id |-> id, type |-> "Feature",
     geometry |-> [type |-> IF Len(coords.items) = 2 /\ ~coords.items[1].list
                            THEN "Point" ELSE "Polygon",
                   coordinates |-> coords],
     properties |-> props]
IngCrsValues ==
    { Crs("EPSG", PyInt(4326)), Crs("EPSG", PyStr("4326")), Crs("EPSG", PyInt(2154)),
      Crs("EPSG", PyInt(9999)), Crs("name", PyInt(2154)) }
IngCoordinates == { Pair(1, 2), List(<<List(<<Pair(1, 2), Pair(3, 4)>>)>>) }
IngIds == {"lpis:fr:R24:1", "lpis:fr:R24:2"}
IngBodies ==
    {IngFeature(id, IngProperties(TRUE, crs, "2016"), c) :
        id \in IngIds, crs \in IngCrsValues, c \in IngCoordinates}
    \cup {IngFeature(id, IngProperties(TRUE, crs, "2017"), Pair(1, 2)) :
        id \in IngIds, crs \in {Crs("EPSG", PyInt(2154)), Crs("EPSG", PyStr("4326"))}}
    \cup {IngFeature(id, IngProperties(FALSE, Crs("", PyInt(0)), "2016"), c) :
        id \in IngIds, c \in IngCoordinates}

\* os.getenv('TARGET_CRS_EPSG_CODE','4326'): the environment holds text
TargetCodes == {PyStr("4326"), PyStr("2154")}

\* What one run of the handler does:
\*   outcome      how the invocation ends
\*   reprojected  whether the projections were built and the coordinates transformed
\*   wrote        whether replace_one was called
\*   doc          the document handed to replace_one
IngResult(outcome, reprojected, wrote, doc) ==
    [outcome |-> outcome, reprojected |-> reprojected, wrote |-> wrote, doc |-> doc]

\* a reprojection that also rewrites the declared code to the target code
IngReprojectBodyRetagged(body, target_crs_epsg_code) ==
    IF "crs" \in DOMAIN body.properties /\ body.properties["crs"].type = "EPSG"
       /\ body.properties["crs"].properties.code # target_crs_epsg_code
    THEN LET code == body.properties["crs"].properties.code
             source_proj == Proj(code)
             target_proj == Proj(target_crs_epsg_code)
         IN  IF source_proj.raised # "none" THEN source_proj
             ELSE IF target_proj.raised # "none" THEN target_proj
             ELSE IF ReprojectRaises(body.geometry.coordinates) THEN Exception("TypeError")
             ELSE [raised |-> "none", status |-> 0, reprojected |-> TRUE,
                   value |-> [body EXCEPT
                       !.geometry.coordinates =
                           reproject_coordinates(source_proj.value, target_proj.value, @),
                       !.properties =
                           [k \in DOMAIN @ |->
                               IF k = "crs" THEN Crs("EPSG", target_crs_epsg_code) ELSE @[k]]]]
    ELSE [raised |-> "none", status |-> 0, reprojected |-> FALSE, value |-> body]

\* lines 37-46: the body after the reprojection, if one is needed
IngReprojectBody(body, target_crs_epsg_code) ==
    IF "crs" \in DOMAIN body.properties /\ body.properties["crs"].type = "EPSG"
       /\ body.properties["crs"].properties.code # target_crs_epsg_code
    THEN LET code == body.properties["crs"].properties.code
             source_proj == Proj(code)
             target_proj == Proj(target_crs_epsg_code)
         IN  IF source_proj.raised # "none" THEN source_proj
             ELSE IF target_proj.raised # "none" THEN target_proj
             ELSE IF ReprojectRaises(body.geometry.coordinates) THEN Exception("TypeError")
             ELSE [raised |-> "none", status |-> 0, reprojected |-> TRUE,
                   value |-> [body EXCEPT !.geometry.coordinates =
                                 reproject_coordinates(source_proj.value, target_proj.value, @)]]
    ELSE [raised |-> "none", status |-> 0, reprojected |-> FALSE, value |-> body]

ing_handler(body, done_loading, target_crs_epsg_code, store_ok) ==
    IF ~done_loading
    THEN IngResult(ExceptClauses(NuclioResponseError(codes_unavailable)), FALSE, FALSE, body)
    ELSE
    LET rb == IngReprojectBody(body, target_crs_epsg_code) IN
    IF rb.raised # "none"
    THEN IngResult(ExceptClauses(rb), FALSE, FALSE, body)
    ELSE IF ~store_ok
    THEN IngResult(ExceptClauses(Exception("PyMongoError")), rb.reprojected, FALSE, rb.value)
    ELSE IngResult(Returned(codes_ok), rb.reprojected, TRUE, rb.value)

\* Helpers.on_import (lines 118-123, 139)
IngLoadConfigs ==
    /\ ing_init_pc = "load_configs"
    /\ \E code \in TargetCodes : ing_target_crs_epsg_code' = code
    /\ ing_init_pc' = "load_mongodb_client"
    /\ UNCHANGED <<ing_done_loading, ing_mongodb_client, ing_store, ing_event,
                   ing_received, ing_last>>

IngLoadMongodbClient ==
    /\ ing_init_pc = "load_mongodb_client"
    /\ ing_mongodb_client' = "MongoClient"
    /\ ing_init_pc' = "set_done_loading"
    /\ UNCHANGED <<ing_done_loading, ing_target_crs_epsg_code, ing_store, ing_event,
                   ing_received, ing_last>>

IngDoneLoading ==
    /\ ing_init_pc = "set_done_loading"
    /\ ing_done_loading' = TRUE
    /\ ing_init_pc' = "finished"
    /\ UNCHANGED <<ing_mongodb_client, ing_target_crs_epsg_code, ing_store, ing_event,
                   ing_received, ing_last>>

\* nuclio hands an event to the function
IngReceive ==
    /\ ing_event = NoEvent
    /\ \E body \in IngBodies : ing_event' = [absent |-> FALSE, body |-> body]
    /\ ing_last' = [absent |-> TRUE]
    /\ UNCHANGED <<ing_init_pc, ing_done_loading, ing_mongodb_client,
                   ing_target_crs_epsg_code, ing_store, ing_received>>

\* handler(context, event), lines 10-63
IngHandler ==
    /\ ing_event # NoEvent
    /\ \E store_ok \in BOOLEAN :
          LET body == ing_event.body
              r == ing_handler(body, ing_done_loading, ing_target_crs_epsg_code, store_ok)
          IN
          /\ ing_store' = IF r.wrote THEN replace_one(ing_store, body._id, r.doc)
                          ELSE ing_store
          /\ ing_received' = IF r.wrote
                             THEN [id \in DOMAIN ing_received \cup {body._id} |->
                                      IF id = body._id THEN body ELSE ing_received[id]]
                             ELSE ing_received
          /\ ing_last' = [absent |-> FALSE, body |-> body, ready |-> ing_done_loading,
                          target |-> ing_target_crs_epsg_code,
                          store_before |-> ing_store, result |-> r]
    /\ ing_event' = NoEvent
    /\ UNCHANGED <<ing_init_pc, ing_done_loading, ing_mongodb_client,
                   ing_target_crs_epsg_code>>

IngInit ==
    /\ ing_init_pc = "load_configs"
    /\ ing_done_loading = FALSE
    /\ ing_mongodb_client = None
    /\ ing_target_crs_epsg_code = None
    /\ ing_store = <<>>
    /\ ing_event = NoEvent
    /\ ing_received = <<>>
    /\ ing_last = [absent |-> TRUE]

IngNext ==
    \/ IngLoadConfigs /\ UNCHANGED <<res_vars, proc_vars, rp_vars>>
    \/ IngLoadMongodbClient /\ UNCHANGED <<res_vars, proc_vars, rp_vars>>
    \/ IngDoneLoading /\ UNCHANGED <<res_vars, proc_vars, rp_vars>>
    \/ IngReceive /\ UNCHANGED <<res_vars, proc_vars, rp_vars>>
    \/ IngHandler /\ UNCHANGED <<res_vars, proc_vars, rp_vars>>

----------------------------------------------------------------------------
(* Helpers.reproject_coordinates on every coordinate structure of a size *)

\* the coordinate pairs of the model
Pairs == {Pair(1, 2), Pair(3, 4)}

\* The coordinate structures of n nodes (a pair or a list counts as one node)
\* and the sequences of structures of n nodes in all
RECURSIVE CoordsOfSize(_), ForestsOfSize(_)
CoordsOfSize(n) ==
    IF n = 1 THEN Pairs \cup {List(<<>>)}
    ELSE {List(f) : f \in ForestsOfSize(n - 1)}
ForestsOfSize(m) ==
    IF m = 0 THEN {<<>>}
    ELSE UNION {{<<c>> \o f : c \in CoordsOfSize(k), f \in ForestsOfSize(m - k)} : k \in 1 .. m}

CoordStructures == UNION {CoordsOfSize(n) : n \in 1 .. MaxNodes}

RpIdle ==
    /\ rp_pc = "idle"
    /\ rp_source = ""
    /\ rp_target = ""
    /\ rp_coords = List(<<>>)
    /\ rp_out = List(<<>>)

RpInit ==
    /\ rp_pc = "call"
    /\ rp_source \in KnownEpsg
    /\ rp_target \in KnownEpsg
    /\ rp_coords \in CoordStructures
    /\ rp_out = List(<<>>)

RpReproject ==
    /\ rp_pc = "call"
    /\ rp_out' = reproject_coordinates(rp_source, rp_target, rp_coords)
    /\ rp_pc' = "returned"
    /\ UNCHANGED <<rp_source, rp_target, rp_coords>>

RpNext == RpReproject /\ UNCHANGED <<res_vars, proc_vars, ing_vars>>

----------------------------------------------------------------------------
(* Specifications: one per function, the other functions at rest *)

InitResolver == ResInit /\ ProcInit({}) /\ IngInit /\ RpIdle
SpecResolver == InitResolver /\ [][ResNext]_vars

\* one Processor invocation at a time
InitProcessor == ResInit /\ ProcInit({1}) /\ IngInit /\ RpIdle
SpecProcessor == InitProcessor /\ [][ProcNext]_vars

\* two Processor invocations dispatched concurrently
InitProcessorConcurrent ==
    ResInit /\ ProcInitWith({1, 2}, "IntKeyShapefiles") /\ IngInit /\ RpIdle
SpecProcessorConcurrent == InitProcessorConcurrent /\ [][ProcNext]_vars

\* one invocation at a time, the archive possibly holding the long shapefile
InitProcessorLong ==
    ResInit /\ ProcInitWith({1}, "WithLongShapefile") /\ IngInit /\ RpIdle
SpecProcessorLong == InitProcessorLong /\ [][ProcNext]_vars

InitIngestor == ResInit /\ ProcInit({}) /\ IngInit /\ RpIdle
SpecIngestor == InitIngestor /\ [][IngNext]_vars

InitReproject == ResInit /\ ProcInit({}) /\ IngInit /\ RpInit
SpecReproject == InitReproject /\ [][RpNext]_vars

\* Each function runs in a process of its own: a behaviour follows the process
\* of one of the three, whichever, from its import on; the two others stay
\* as they are before their import.
InitAnyFunction == ResInit /\ ProcInit({1}) /\ IngInit /\ RpIdle
NextAnyFunction ==
    \/ ProcInit({1}) /\ IngInit /\ ResNext
    \/ ResInit /\ IngInit /\ ProcNext
    \/ ResInit /\ ProcInit({1}) /\ IngNext
SpecAnyFunction == InitAnyFunction /\ [][NextAnyFunction]_vars

----------------------------------------------------------------------------
(* Properties of the Processor *)

\* what the contract of the Processor calls a Download Command it must reject
RequiredFields == {"format", "url", "sourceID", "parcelIdField", "normalizedProperties", "version"}
RejectedCommand(body) ==
    \/ RequiredFields \ DOMAIN body # {}
    \/ "format" \in DOMAIN body /\ lower(body["format"].s) # "7z"
    \/ "sourceID" \in DOMAIN body /\ body["sourceID"].dataset # "lpis:fr"

\* C1: a Download Command with a missing field, an unsupported format or a
\* foreign sourceID prefix, received while the function is ready, is answered
\* with status 400.
C1_RejectedCommandReturns400 ==
    \A i \in proc_slots :
        (proc_pc[i] = "done" /\ proc_inv[i].ready /\ RejectedCommand(proc_inv[i].body))
            => proc_inv[i].outcome = Returned(codes_bad)

\* C2: in each of the three functions an invocation that starts before
\* done_loading is set is answered with status 503, and fetches, downloads,
\* publishes and stores nothing.
C2_NotReadyReturns503 ==
    /\ \A i \in proc_slots :
          (proc_pc[i] = "done" /\ ~proc_inv[i].ready)
              => /\ proc_inv[i].outcome = Returned(codes_unavailable)
                 /\ proc_inv[i].tmp_dir = None
                 /\ proc_inv[i].emitted = <<>>
    /\ (~res_last.absent /\ ~res_last.ready)
          => /\ res_last.result.outcome = Returned(codes_unavailable)
             /\ ~res_last.result.fetched
             /\ res_topic = res_last.topic_before
    /\ (~ing_last.absent /\ ~ing_last.ready)
          => /\ ing_last.result.outcome = Returned(codes_unavailable)
             /\ ing_store = ing_last.store_before

\* C3: an invocation that created its working directory has removed it when
\* the handler exits, whatever the stage that failed and the error it raised.
C3_WorkingDirRemovedOnExit ==
    [][\A i \in proc_slots :
          (proc_pc[i] # "done" /\ proc_pc'[i] = "done" /\ proc_inv[i].tmp_dir # None)
              => proc_inv[i].tmp_dir \notin proc_fs']_vars

\* an invocation that failed after creating its directory has exited, and
\* the directory is gone
C3_Witness ==
    \E i \in proc_slots :
        /\ proc_pc[i] = "done"
        /\ proc_inv[i].tmp_dir # None
        /\ proc_inv[i].outcome = Returned(codes_internal_server_error)
        /\ proc_inv[i].tmp_dir \notin proc_fs

----------------------------------------------------------------------------
(* Properties of the Ingestor *)

WithoutCoordinates(doc) == [doc EXCEPT !.geometry.coordinates = List(<<>>)]

\* C4: the store holds one document per ingested feature id and no other,
\* and that document is the feature of the last successful invocation for
\* the id, whole: every field but the coordinates as received, and the
\* coordinates as received or reprojected.
C4_OneDocumentPerId ==
    /\ \A k \in 1 .. Len(ing_store) : ing_store[k]._id \in DOMAIN ing_received
    /\ \A id \in DOMAIN ing_received :
          LET docs == {k \in 1 .. Len(ing_store) : ing_store[k]._id = id}
              feature == ing_received[id]
          IN  /\ Cardinality(docs) = 1
              /\ \A k \in docs :
                    /\ WithoutCoordinates(ing_store[k]) = WithoutCoordinates(feature)
                    /\ \/ ing_store[k].geometry.coordinates = feature.geometry.coordinates
                       \/ \E sp, tp \in KnownEpsg :
                             ing_store[k].geometry.coordinates =
                                 reproject_coordinates(sp, tp, feature.geometry.coordinates)

\* a feature id is ingested again with another version while the store holds
\* two ids: the document of the id is the new version
C4_Witness ==
    /\ ~ing_last.absent
    /\ ing_last.result.wrote
    /\ Len(ing_last.store_before) = 2
    /\ Len(ing_store) = 2
    /\ \E k \in 1 .. 2 :
          /\ ing_last.store_before[k]._id = ing_last.body._id
          /\ ing_last.store_before[k].properties["version"] = PyStr("2016")
          /\ ing_store[k].properties["version"] = PyStr("2017")

\* C5: a feature whose EPSG code is the canonical target code is stored
\* without any reprojection, its coordinates unchanged; a feature with
\* another code is reprojected before it is stored.
C5_ReprojectedIffCodesDiffer ==
    (/\ ~ing_last.absent
     /\ ing_last.result.wrote
     /\ "crs" \in DOMAIN ing_last.body.properties
     /\ ing_last.body.properties["crs"].type = "EPSG")
        => LET code == int(ing_last.body.properties["crs"].properties.code).n
               target == int(ing_last.target).n
           IN  IF code = target
               THEN /\ ~ing_last.result.reprojected
                    /\ ing_last.result.doc.geometry.coordinates =
                          ing_last.body.geometry.coordinates
               ELSE ing_last.result.reprojected

\* C6: reproject_coordinates returns a structure of the shape of its
\* argument, in which each coordinate pair is the transform of the pair at
\* the same place.
IsPair(c) == c.list /\ Len(c.items) = 2 /\ \A k \in 1 .. 2 : ~c.items[k].list
RECURSIVE PairwiseTransformed(_, _, _, _)
PairwiseTransformed(sp, tp, in, out) ==
    IF IsPair(in)
    THEN /\ IsPair(out)
         /\ out.items = transform(sp, tp, in.items[1], in.items[2])
    ELSE /\ out.list
         /\ Len(out.items) = Len(in.items)
         /\ \A k \in 1 .. Len(in.items) :
               /\ out.items[k].list
               /\ PairwiseTransformed(sp, tp, in.items[k], out.items[k])

C6_ReprojectPreservesShape ==
    rp_pc = "returned" => PairwiseTransformed(rp_source, rp_target, rp_coords, rp_out)

\* a structure of three levels with two pairs side by side, reprojected
\* between two different systems
C6_Witness ==
    /\ rp_pc = "returned"
    /\ rp_source # rp_target
    /\ rp_coords = List(<<List(<<Pair(1, 2), Pair(3, 4)>>), List(<<>>)>>)
    /\ rp_out # rp_coords

----------------------------------------------------------------------------
(* Properties of the Resolver *)

\* the hrefs of the page that match the archive-name pattern of the request
MatchingAnchors(last) ==
    {k \in 1 .. Len(last.fetch.anchors) :
        /\ last.fetch.anchors[k].has
        /\ ArchiveRegexMatches(last.body["year"], RegionCode(last.body["region"]),
                               last.fetch.anchors[k])}

\* the invocation got as far as reading a catalog page
GotCatalogPage(last) == ~last.absent /\ last.result.fetched /\ ~last.fetch.raises

\* C7: for every request that passes the validation, whether year and region
\* come as numbers or as numeric text, the region code is D97<region> for
\* the regions 1, 2, 3, 4, 6 and R<region> for the others.
C7_OverseasRegionCode ==
    (~res_last.absent /\ res_last.result.region # "")
        => LET n == int(res_last.body["region"]).n IN
           res_last.result.region =
               (IF n \in {1, 2, 3, 4, 6} THEN "D97" ELSE "R") \o ToString(n)

\* C8: when the catalog page holds no href or several hrefs matching the
\* archive-name pattern, the answer is 400 and nothing is emitted.
C8_AmbiguousDiscoveryRejected ==
    (GotCatalogPage(res_last) /\ Cardinality(MatchingAnchors(res_last)) # 1)
        => /\ res_last.result.outcome = Returned(codes_bad)
           /\ res_last.result.produced = <<>>
           /\ res_topic = res_last.topic_before

\* a page with two matching hrefs was refused
C8_Witness ==
    /\ GotCatalogPage(res_last)
    /\ Cardinality(MatchingAnchors(res_last)) = 2
    /\ res_last.result.outcome = Returned(codes_bad)

\* C9: a request whose year or region is missing or does not parse as an
\* integer is answered with status 400 and nothing is emitted.
C9_InvalidRequestReturns400 ==
    (/\ ~res_last.absent
     /\ res_last.ready
     /\ \E k \in {"year", "region"} :
           k \notin DOMAIN res_last.body \/ ~int(res_last.body[k]).ok)
        => /\ res_last.result.outcome = Returned(codes_bad)
           /\ res_topic = res_last.topic_before

\* C10: when the GET of the catalog raises or is answered with an error
\* status, the answer is 503.
C10_FetchFailureReturns503 ==
    (/\ ~res_last.absent
     /\ res_last.result.fetched
     /\ (res_last.fetch.raises \/ res_last.fetch.status_code >= 400))
        => res_last.result.outcome = Returned(codes_unavailable)

\* C11: an invocation of the Resolver answers 200 only when it has handed
\* exactly one Download Command to the producer and the flush that follows has
\* returned; the topic then holds that one more message, all of it delivered.
C11_SuccessAfterProduceAndFlush ==
    (~res_last.absent /\ res_last.result.outcome = Returned(codes_ok))
        => /\ Len(res_last.result.produced) = 1
           /\ res_last.result.flushed
           /\ res_topic = res_last.topic_before \o res_last.result.produced
           /\ res_flushed = Len(res_topic)

\* a request was answered 200 and its command is on the topic
C11_Witness ==
    /\ ~res_last.absent
    /\ res_last.result.outcome = Returned(codes_ok)
    /\ Len(res_topic) = Len(res_last.topic_before) + 1
    /\ res_flushed = Len(res_topic)

\* The invocation in slot i returned its completion summary.
Completed(i) == proc_pc[i] = "done" /\ proc_inv[i].outcome = Returned(codes_ok)

\* the natural key of the k-th record of the shapefile slot i read
NaturalKey(i, k) == proc_inv[i].records[k][proc_inv[i].b.parcel_id_field]

FeatureIds(i) == [k \in DOMAIN proc_inv[i].emitted |-> proc_inv[i].emitted[k]._id]

Injective(f) == \A j, k \in DOMAIN f : j # k => f[j] # f[k]

\* C12 as stated: a completed invocation whose N records have pairwise
\* distinct natural keys emitted N features, the k-th with id
\* <sourceID>:<natural key of record k>, the ids pairwise distinct, and counted N.
C12_OneFeaturePerDistinctKey ==
    \A i \in proc_slots :
        (Completed(i) /\ Injective([k \in DOMAIN proc_inv[i].records |-> NaturalKey(i, k)]))
            => /\ Len(proc_inv[i].emitted) = Len(proc_inv[i].records)
               /\ proc_inv[i].count = Len(proc_inv[i].records)
               /\ Injective(FeatureIds(i))
               /\ \A k \in DOMAIN proc_inv[i].emitted :
                     FeatureIds(i)[k] = SourceIDText(proc_inv[i].b.source_id) \o ":"
                                            \o format(NaturalKey(i, k))

\* C12 amended: a completed invocation whose N records have natural keys with
\* pairwise distinct integer values emitted N features, the k-th with id
\* <sourceID>:<integer value of the key of record k>, the ids pairwise
\* distinct, and counted N.
C12_OneFeaturePerDistinctIntegerKey ==
    \A i \in proc_slots :
        (Completed(i)
         /\ Injective([k \in DOMAIN proc_inv[i].records |-> int(NaturalKey(i, k)).n]))
            => /\ Len(proc_inv[i].emitted) = Len(proc_inv[i].records)
               /\ proc_inv[i].count = Len(proc_inv[i].records)
               /\ Injective(FeatureIds(i))
               /\ \A k \in DOMAIN proc_inv[i].emitted :
                     FeatureIds(i)[k] = SourceIDText(proc_inv[i].b.source_id) \o ":"
                                            \o ToString(int(NaturalKey(i, k)).n)

\* an invocation completed a shapefile of two records, keys 2 and "01"
C12_Witness ==
    \E i \in proc_slots :
        /\ Completed(i)
        /\ Len(proc_inv[i].records) = 2
        /\ NaturalKey(i, 1) = PyInt(2)
        /\ NaturalKey(i, 2) = PyStr("01")
        /\ proc_inv[i].count = 2

\* The invocation in slot i ran the named stage.
Ran(i, stage) == \E k \in DOMAIN proc_inv[i].stages : proc_inv[i].stages[k] = stage

\* The region the sourceID ends with is not of the form R<digits> or
\* D97<digit>, or its number has no entry in the table of coordinate systems.
UnknownRegion(sid) ==
    \/ ~(sid.letters \in {"R", "D97"} /\ sid.digits # "")
    \/ int(PyStr(sid.digits)).n \notin DOMAIN region_code_epsg_crs

\* C13: an invocation that came to derive the coordinate system of a sourceID
\* whose region is unknown returns 400, assigns no coordinate system and emits
\* no Parcel Feature.
C13_UnknownRegionReturns400 ==
    \A i \in proc_slots :
        (proc_pc[i] = "done" /\ Ran(i, "crs") /\ UnknownRegion(proc_inv[i].b.source_id))
            => /\ proc_inv[i].outcome = Returned(codes_bad)
               /\ proc_inv[i].crs_code = 0
               /\ proc_inv[i].emitted = <<>>

\* C14: once a ready Processor has rejected a Download Command at validation
\* (format 'zip', a missing field, a foreign sourceID), no working directory
\* has been created, no download started and no message produced, by the end
\* of the invocation included.
C14_RejectionBeforeSideEffects ==
    \A i \in proc_slots :
        (/\ proc_pc[i] \in {"finally", "done"}
         /\ proc_inv[i].ready
         /\ RejectedCommand(proc_inv[i].body))
            => /\ proc_inv[i].tmp_dir = None
               /\ ~Ran(i, "mkdir") /\ ~Ran(i, "download")
               /\ proc_inv[i].emitted = <<>>
               /\ proc_fs = {} /\ proc_buffer = <<>> /\ proc_topic = <<>>

\* a command of format 'zip' was rejected by a ready Processor
C14_Witness ==
    \E i \in proc_slots :
        /\ proc_pc[i] = "done"
        /\ proc_inv[i].ready
        /\ "format" \in DOMAIN proc_inv[i].body
        /\ proc_inv[i].body["format"] = PyStr("zip")
        /\ proc_inv[i].stages = <<"validate", "cleanup">>

----------------------------------------------------------------------------
(* Properties of the Ingestor *)

\* C15: the Ingestor writes a feature only when the feature declares an EPSG
\* code and that code is the target code or its coordinates were reprojected;
\* a feature without a declaration, or with one that is not EPSG, is not
\* written.
C15_StoredInCanonicalCrs ==
    (~ing_last.absent /\ ing_last.result.wrote)
        => /\ "crs" \in DOMAIN ing_last.body.properties
           /\ ing_last.body.properties["crs"].type = "EPSG"
           /\ \/ int(ing_last.body.properties["crs"].properties.code).n = int(ing_last.target).n
              \/ ing_last.result.reprojected

----------------------------------------------------------------------------
(* Properties of the Resolver, continued *)

\* C16: the Download Command of a successful request has the sourceID
\* 'lpis:fr:' followed by the region code and, as version, the text of the
\* requested year (a string: '2016' for the year 2016).
C16_CommandSourceAndVersion ==
    (~res_last.absent /\ res_last.result.outcome = Returned(codes_ok))
        => LET cmd == res_last.result.produced[1] IN
           /\ cmd.sourceID = "lpis:fr:" \o res_last.result.region
           /\ cmd.version = PyStr(format(res_last.body["year"]))

----------------------------------------------------------------------------
(* Properties of the Processor, continued *)

StageOrder ==
    <<"validate", "mkdir", "download", "extract", "locate", "crs", "stream", "cleanup">>

\* The stages ran in the order of StageOrder, each at most once, none skipped
\* but for the jump to cleanup; an invocation refused because the function
\* is not ready ran the readiness test alone.
InStageOrder(stages) ==
    \/ \E k \in 0 .. 7 :
          stages \in {SubSeq(StageOrder, 1, k), Append(SubSeq(StageOrder, 1, k), "cleanup")}
    \/ stages \in {<<"ready">>, <<"ready", "cleanup">>}

\* C17: the stages of every Processor invocation run in the order validate,
\* stage directory, download, extract, locate shapefile, derive CRS, stream,
\* cleanup, each at most once; a feature is emitted only by the streaming
\* stage; and once a stage has failed (the except clauses have chosen the
\* response) nothing but cleanup runs and no feature is emitted any more.
C17_StagesInOrderFailureSkipsToCleanup ==
    /\ [](\A i \in proc_slots :
            /\ InStageOrder(proc_inv[i].stages)
            /\ proc_inv[i].emitted # <<>> => Ran(i, "stream"))
    /\ [][\A i \in proc_slots :
            /\ proc_inv'[i].pending # proc_inv[i].pending => proc_pc'[i] = "finally"
            /\ proc_pc[i] = "finally"
                  => /\ proc_inv'[i].stages \in
                          {proc_inv[i].stages, Append(proc_inv[i].stages, "cleanup")}
                     /\ proc_inv'[i].emitted = proc_inv[i].emitted
                     /\ proc_pc'[i] \in {"finally", "done"}]_vars

\* an invocation whose download failed went straight to cleanup
C17_Witness ==
    \E i \in proc_slots :
        /\ proc_pc[i] = "done"
        /\ proc_inv[i].stages = <<"validate", "mkdir", "download", "cleanup">>
        /\ proc_inv[i].outcome = Returned(codes_unavailable)
        /\ proc_inv[i].emitted = <<>>

\* C18: while an invocation streams records, the messages produced and not
\* yet flushed never number more than 1000, the one just produced included;
\* and once the completion summary is prepared the producer holds nothing
\* unflushed: every feature the invocation emitted is on the topic.
C18_UnflushedBoundedAndFlushedOnCompletion ==
    /\ [][\A i \in proc_slots :
            proc_inv'[i].count = proc_inv[i].count + 1 => Len(proc_buffer) + 1 <= 1000]_vars
    /\ [](Len(proc_buffer) <= 1000)
    /\ [](\A i \in proc_slots :
            (proc_pc[i] \in {"finally", "done"} /\ proc_inv[i].pending = Returned(codes_ok))
                => /\ proc_buffer = <<>>
                   /\ proc_topic = proc_inv[i].emitted
                   /\ Len(proc_topic) = proc_inv[i].count)

\* an invocation completed a shapefile of two records: the second was
\* produced without a flush and delivered by the last one
C18_Witness ==
    \E i \in proc_slots :
        /\ Completed(i)
        /\ proc_inv[i].count = 2
        /\ proc_buffer = <<>>
        /\ Len(proc_topic) = 2

\* the number of files named PARCELLES_GRAPHIQUES.shp in the extracted tree,
\* anywhere, and under the directory named after the archive
ShapefilesAnywhere(tree) == Cardinality({k \in DOMAIN tree : ShpName \in tree[k].files})
ShapefilesUnderArchiveDir(tree) ==
    Cardinality({k \in DOMAIN tree : tree[k].under_search_path /\ ShpName \in tree[k].files})

HoldsDir(i) == proc_inv[i].tmp_dir # None /\ proc_pc[i] # "done"

\* C20: under every interleaving of the invocations,
\*  - two invocations never hold the same working directory, and those with
\*    distinct event ids hold distinct ones;
\*  - an invocation gets a working directory only by creating one that did
\*    not exist, named after its own event id;
\*  - a directory is removed only by the cleanup of the invocation holding it;
\*  - an invocation whose creation failed on an existing directory holds
\*    none and does not end with a success.
C20_WorkingDirsIsolated ==
    /\ [](\A i, j \in proc_slots :
            (i # j /\ HoldsDir(i) /\ HoldsDir(j))
                => proc_inv[i].tmp_dir # proc_inv[j].tmp_dir)
    /\ [](\A i \in proc_slots :
            (Ran(i, "mkdir") /\ ~Ran(i, "download") /\ proc_pc[i] \in {"finally", "done"})
                => /\ proc_inv[i].tmp_dir = None
                   /\ proc_pc[i] = "done" => proc_inv[i].outcome # Returned(codes_ok))
    /\ [][/\ \A i \in proc_slots :
              proc_inv'[i].tmp_dir \notin {None, proc_inv[i].tmp_dir}
                  => /\ proc_inv'[i].tmp_dir = proc_inv'[i].event_id
                     /\ proc_inv'[i].tmp_dir \notin proc_fs
                     /\ proc_inv'[i].tmp_dir \in proc_fs'
          /\ \A path \in proc_fs \ proc_fs' :
              \E i \in proc_slots :
                  /\ HoldsDir(i) /\ proc_inv[i].tmp_dir = path
                  /\ proc_pc[i] = "finally" /\ proc_pc'[i] = "done"]_vars

\* an invocation failed on the directory another one holds, which is still there
C20_Witness ==
    \E i, j \in proc_slots :
        /\ i # j
        /\ HoldsDir(i)
        /\ proc_inv[i].tmp_dir \in proc_fs
        /\ proc_inv[j].event_id = proc_inv[i].event_id
        /\ proc_pc[j] = "done"
        /\ proc_inv[j].stages = <<"validate", "mkdir", "cleanup">>
        /\ proc_inv[j].tmp_dir = None

----------------------------------------------------------------------------
(* Properties of the Ingestor, continued *)

\* the documents of the store, whatever the order they were inserted in
StoreContent == {ing_store[k] : k \in 1 .. Len(ing_store)}

\* C21: the content of the store is a function of the features ingested, one
\* per id, and of nothing else: it is the set of their documents (each
\* feature as the handler writes it for the configured target), whatever the
\* order of the deliveries and the failed or refused invocations in between,
\* each document present once.
C21_StoreIndependentOfOrder ==
    /\ StoreContent =
          {IngReprojectBody(ing_received[id], ing_target_crs_epsg_code).value :
              id \in DOMAIN ing_received}
    /\ Len(ing_store) = Cardinality(DOMAIN ing_received)

\* the feature of id 1 was ingested after the feature of id 2
C21_Witness ==
    /\ ~ing_last.absent
    /\ ing_last.result.wrote
    /\ ing_last.body._id = "lpis:fr:R24:1"
    /\ Len(ing_last.store_before) = 1
    /\ ing_last.store_before[1]._id = "lpis:fr:R24:2"
    /\ Len(ing_store) = 2

----------------------------------------------------------------------------
(* Properties of the three functions *)

\* C22: in each function, whatever the interleaving of the thread running
\* on_import with the invocations of the handler,
\*  - done_loading is never reset, and is set only in a state where the
\*    handle (producer, MongoDB client) is already set;
\*  - the handle, once set, is not set again;
\*  - so done_loading implies a handle, and an invocation that passed the
\*    readiness test runs with the handle set.
C22_ReadyOnlyAfterHandle ==
    /\ [](/\ res_done_loading => res_producer # None
          /\ proc_done_loading => proc_producer # None
          /\ ing_done_loading => ing_mongodb_client # None
          /\ (~res_last.absent /\ res_last.ready) => res_producer # None
          /\ \A i \in proc_slots : proc_inv[i].ready => proc_producer # None
          /\ (~ing_last.absent /\ ing_last.ready) => ing_mongodb_client # None)
    /\ [][/\ res_done_loading => res_done_loading'
          /\ proc_done_loading => proc_done_loading'
          /\ ing_done_loading => ing_done_loading'
          /\ res_done_loading' # res_done_loading => res_producer # None
          /\ proc_done_loading' # proc_done_loading => proc_producer # None
          /\ ing_done_loading' # ing_done_loading => ing_mongodb_client # None
          /\ res_producer # None => res_producer' = res_producer
          /\ proc_producer # None => proc_producer' = proc_producer
          /\ ing_mongodb_client # None => ing_mongodb_client' = ing_mongodb_client]_vars

\* an invocation of the Processor refused as not ready is still on its way
\* out when on_import has set the producer and then the flag
C22_Witness ==
    \E i \in proc_slots :
        /\ proc_pc[i] = "finally"
        /\ ~proc_inv[i].ready
        /\ proc_inv[i].stages = <<"ready">>
        /\ proc_done_loading
        /\ proc_producer # None

\* the document of the store with the given id
StoredDocument(id) == ing_store[CHOOSE k \in 1 .. Len(ing_store) : ing_store[k]._id = id]

\* C23: the document the Ingestor has just written is the received feature
\* in everything but geometry.coordinates: same _id, type, geometry.type and
\* properties, the declared crs included, which keeps the source code after
\* a reprojection; and the other documents of the store are untouched.
C23_OnlyCoordinatesChange ==
    (~ing_last.absent /\ ing_last.result.wrote)
        => LET feature == ing_last.body
               doc == StoredDocument(feature._id)
           IN  /\ doc._id = feature._id
               /\ doc.type = feature.type
               /\ doc.geometry.type = feature.geometry.type
               /\ doc.properties = feature.properties
               /\ DOMAIN doc = DOMAIN feature
               /\ DOMAIN doc.geometry = DOMAIN feature.geometry
               /\ ~ing_last.result.reprojected
                    => doc.geometry.coordinates = feature.geometry.coordinates
               /\ \A k \in 1 .. Len(ing_last.store_before) :
                     ing_last.store_before[k]._id # feature._id
                         => \E j \in 1 .. Len(ing_store) :
                               ing_store[j] = ing_last.store_before[k]

\* a feature declared in EPSG:2154 was stored for the target 4326 with other
\* coordinates and its declaration of 2154
C23_Witness ==
    /\ ~ing_last.absent
    /\ ing_last.result.wrote
    /\ ing_last.result.reprojected
    /\ ing_last.target = PyStr("4326")
    /\ ing_last.body.properties["crs"] = Crs("EPSG", PyInt(2154))
    /\ StoredDocument(ing_last.body._id).properties["crs"] = Crs("EPSG", PyInt(2154))
    /\ StoredDocument(ing_last.body._id).geometry.coordinates
          # ing_last.body.geometry.coordinates

====
